---------------------------- MODULE Spec2Model ----------------------------
(***************************************************************************)
(* The Redis cache manager of the todo-list application                    *)
(* (09-todo-list-migration, utils/cache.py and utils/bloom_filter.py), in  *)
(* its thread-based (flask-app) and task-based (fastapi-app) variants.     *)
(*                                                                         *)
(* Request handlers are the processes of Procs.  Every call of the redis   *)
(* client, every lock acquisition and the call of fetch_func is one step;  *)
(* between two steps of one handler any other handler may run.             *)
(***************************************************************************)
EXTENDS Integers, Sequences, FiniteSets, TLC

(***************************************************************************)
(* Bounds of the model.                                                    *)
(***************************************************************************)
\* calls started in one behaviour, over all handlers
MaxOps == 2
\* redis calls that fail with a connection error in one behaviour
MaxFaults == 1
\* cache entries whose TTL runs out in one behaviour
MaxExpiries == 1
\* random.randint(0, random_range) is sampled at the multiples of JitterStride
JitterStride == 300
\* the sequential specification draws the jitter at this stride
FineStride == 100

Procs == {"h1", "h2"}
FirstProc == "h1"

(***************************************************************************)
(* Python values.  A value is its type with its JSON text (for a str: the  *)
(* characters of the string).                                              *)
(***************************************************************************)
PyValue(type, text) == [type |-> type, text |-> text]
None == PyValue("NoneType", "null")
PyStr(s) == PyValue("str", s)
PyInt(n) == PyValue("int", n)
PyTrue == PyValue("bool", "true")
PyDict(text) == PyValue("dict", text)
PyList(text) == PyValue("list", text)

Todo2 == PyDict("{\"id\": 2}")
EmptyList == PyList("[]")

\* what fetch_func may return, and what callers pass to set
FetchValues == {None, Todo2, EmptyList, PyStr("123")}
SetValues == {Todo2, PyStr("__NULL__")}

\* the ttl arguments of get_or_set and set; NoTtl is ttl=None
NoTtl == 0
TtlArgs == {NoTtl}

default_ttl == 3600
null_ttl == 300
random_range == 300
NullMarker == "__NULL__"

(***************************************************************************)
(* The todos table (models/todo.py).  A row is a todo with its owner; of   *)
(* the other columns only `completed` is kept.                             *)
(***************************************************************************)
TodoIds == {1}
UserIds == {1}
\* the users that call the todo service
Owners == {1, 2}
Rows == [id : TodoIds, user_id : Owners, completed : BOOLEAN]
NoRow == [id |-> 0, user_id |-> 0, completed |-> FALSE]

\* Todo.to_dict
to_dict(todo) ==
    PyDict("{\"id\": " \o ToString(todo.id) \o ", \"user_id\": "
           \o ToString(todo.user_id) \o ", \"completed\": "
           \o (IF todo.completed THEN "true" ELSE "false") \o "}")

(***************************************************************************)
(* json.dumps and json.loads on the texts the model stores.                *)
(***************************************************************************)
JSONDecodeError == PyValue("JSONDecodeError", "")

json_dumps(value) == value.text

json_loads(text) ==
    CASE text = "null" -> None
      [] text = "true" -> PyTrue
      [] text = "123" -> PyInt("123")
      [] text = "[]" -> EmptyList
      [] text = "{\"id\": 2}" -> Todo2
      [] text \in {to_dict(todo).text : todo \in Rows} -> PyDict(text)
      [] OTHER -> JSONDecodeError

\* CacheManager.set: the text written for value
Serialize(value) ==
    IF value.type = "str" THEN value.text ELSE json_dumps(value)

\* CacheManager.get: the value returned for the text read; NoText is a
\* missing key (redis GET returns None)
NoText == "<nil>"
Deserialize(text) ==
    IF text = NoText THEN None
    ELSE IF text = NullMarker THEN None
    ELSE IF json_loads(text) = JSONDecodeError THEN PyStr(text)
    ELSE json_loads(text)

(***************************************************************************)
(* Keys are character sequences, so that f-string formatting and the glob  *)
(* patterns of redis KEYS are computed on the characters.                  *)
(***************************************************************************)
Digit(d) == <<"0", "1", "2", "3", "4", "5", "6", "7", "8", "9">>[d + 1]

RECURSIVE IntToStr(_)
IntToStr(n) == IF n < 10 THEN <<Digit(n)>>
               ELSE IntToStr(n \div 10) \o <<Digit(n % 10)>>

TodoKey(todo_id) == <<"t", "o", "d", "o", ":">> \o IntToStr(todo_id)
UserTodosKey(user_id) ==
    <<"t", "o", "d", "o", "s", ":", "u", "s", "e", "r", ":">> \o IntToStr(user_id)
BloomKey ==
    <<"b", "l", "o", "o", "m", ":", "t", "o", "d", "o", "_", "k", "e", "y", "s">>

\* the cache keys of the calls
Keys == {TodoKey(i) : i \in TodoIds}
Patterns == {<<"t", "o", "d", "o", ":", "*">>, <<"*">>}

\* a variant of the matching of redis KEYS: the pattern is a prefix of the key
PrefixMatch(pattern, key) ==
    Len(pattern) <= Len(key) /\ SubSeq(key, 1, Len(pattern)) = pattern

\* glob matching of redis KEYS: * matches any run of characters, ? one
\* character, any other character itself
RECURSIVE GlobMatch(_, _)
GlobMatch(pattern, s) ==
    IF pattern = <<>> THEN s = <<>>
    ELSE IF Head(pattern) = "*"
         THEN \/ GlobMatch(Tail(pattern), s)
              \/ (s # <<>> /\ GlobMatch(pattern, Tail(s)))
    ELSE /\ s # <<>>
         /\ (Head(pattern) = "?" \/ Head(pattern) = Head(s))
         /\ GlobMatch(Tail(pattern), Tail(s))


(***************************************************************************)
(* BloomFilter.  mmh3.hash(item, seed) is MurmurHash3_x86_32 as a signed   *)
(* 32-bit integer; mmh3_table holds its values for the items of the model  *)
(* and the seeds 0 .. hash_count - 1.                                      *)
(***************************************************************************)
capacity == 10000
error_rate == 1          \* in hundredths: error_rate=0.01

\* Float arithmetic of BloomFilter.__init__ in fixed point.  LogRatio(p) is
\* -math.log(p) / (math.log(2) ** 2) and Ln2 is math.log(2), both truncated
\* to the unit written beside them; the truncation moves a product with a
\* capacity of 10000 by less than 0.1.
RatioUnit == 100000
LogRatio(p) == CASE p = 1 -> 958505      \* 9.585058377...
Ln2Unit == 10000
Ln2 == 6931                              \* 0.693147180...

\* int(-capacity * math.log(error_rate) / (math.log(2) ** 2)): int()
\* truncates
BitSize(n, p) ==
    n * (LogRatio(p) \div RatioUnit) + (n * (LogRatio(p) % RatioUnit)) \div RatioUnit

\* int(self.bit_size * math.log(2) / capacity), raised to 1 when below 1
HashCount(m, n) ==
    LET k == (m * Ln2) \div (n * Ln2Unit)
    IN  IF k < 1 THEN 1 ELSE k

bit_size == BitSize(capacity, error_rate)
hash_count == HashCount(bit_size, capacity)

\* items recorded in the bit array before this process was constructed (the
\* bit array lives in redis and outlives the process: nothing resets it)
PeerItems == {TodoKey(3280), TodoKey(8838), TodoKey(26176),
              TodoKey(27371), TodoKey(35087), TodoKey(37102)}

mmh3_table ==
    (TodoKey(1) :> <<-778459743, 1809894643, 2123780742, 757378203, -1163035542, 1901583611>>) @@
    (UserTodosKey(1) :> <<1803321727, -1458722096, 1187633791, 575246348, -199204915, 1093538356>>) @@
    (TodoKey(3280) :> <<1609549347, 295928881, 404575056, -600964039, 776806608, -1872116278>>) @@
    (TodoKey(8838) :> <<1147070907, -1738767308, 842919799, -97640752, 918393577, -1799801574>>) @@
    (TodoKey(26176) :> <<-136919389, 1905064470, -1762798315, 245841371, -861719997, -185486115>>) @@
    (TodoKey(27371) :> <<-1096686721, -2114176965, 1429753543, 839829593, 11003097, 1213489055>>) @@
    (TodoKey(35087) :> <<902555892, 1932491412, -986396340, -1650233014, 1249568547, -832019277>>) @@
    (TodoKey(37102) :> <<234344756, 1355057522, -502221240, -306202648, -931495434, -760465542>>)

mmh3_hash(item, seed) == mmh3_table[item][seed + 1]

\* a variant of _get_offsets whose remainder takes the sign of the hash
TruncatedOffsets(item) ==
    [i \in 1..hash_count |->
        LET h == mmh3_hash(item, i - 1)
        IN  IF h < 0 THEN -((-h) % bit_size) ELSE h % bit_size]

\* BloomFilter._get_offsets
get_offsets(item) ==
    [i \in 1..hash_count |-> mmh3_hash(item, i - 1) % bit_size]

OffsetSet(item) == {get_offsets(item)[i] : i \in 1..hash_count}

\* BloomFilter.add: SETBIT 1 at every offset, in one pipeline
bloom_add(bitmap, item) == bitmap \cup OffsetSet(item)

\* BloomFilter.exists: GETBIT at every offset, all(results); a bit of a
\* missing key reads 0
bloom_exists(bitmap, item) ==
    \A i \in 1..hash_count : get_offsets(item)[i] \in bitmap

\* BloomFilter.add_batch
RECURSIVE bloom_add_batch(_, _)
bloom_add_batch(bitmap, items) ==
    IF items = {} THEN bitmap
    ELSE LET item == CHOOSE x \in items : TRUE
         IN  bloom_add_batch(bloom_add(bitmap, item), items \ {item})

(***************************************************************************)
(* State.                                                                  *)
(***************************************************************************)
VARIABLES
    variant,       \* "sync" (flask-app) or "async" (fastapi-app)
    redis,         \* the string entries of the store: key -> NoEntry or [text, ttl]
    bits,          \* the offsets set to 1 in the bit array at BloomKey
    redis_client,  \* CacheManager.redis_client
    bloom_filter,  \* CacheManager.bloom_filter
    connecting,    \* handlers inside _get_redis, awaiting from_url
    todos,         \* the todos table of the database
    locks,         \* CacheManager._locks: the lock object of each key
    lock_owner,    \* key -> the handler holding _locks[key], or NoOne
    pc,            \* handler -> its position
    frame,         \* handler -> the arguments and locals of its call
    ops_started,   \* calls started so far
    faults,        \* redis calls that have failed so far
    expiries,      \* entries that have expired so far
    fetch_count,   \* key -> invocations of fetch_func for the key
    recorded,      \* history: every item ever passed to BloomFilter.add
    fetch_failed,  \* history: key -> the call whose fetch_func raised last,
                   \* with nothing written to the key or the filter since
    shadow         \* history: key -> the last event on its entry

vars == <<variant, todos, redis, bits, redis_client, bloom_filter, connecting, locks,
          lock_owner, pc, frame, ops_started, faults, expiries, fetch_count,
          recorded, fetch_failed, shadow>>

NoEntry == [text |-> NoText, ttl |-> 0]
Entry(text, ttl) == [text |-> text, ttl |-> ttl]
NoOne == "nobody"
NoClient == "None"

NoResult == [kind |-> "none", value |-> None]
Returned(value) == [kind |-> "return", value |-> value]
Raised(exc) == [kind |-> "raise", value |-> PyValue(exc, "")]

ConnectionError == "ConnectionError"
FetchErrors == {"FetchFailed"}

\* the last event on a key's entry, with the Python value a write stored
Event(by, value) == [by |-> by, value |-> value]
NoEvent == Event("none", None)
\* an entry of fetch_failed: the check_bloom of the call whose fetch raised
NoFailure == "none"
FailedCall(check_bloom) == IF check_bloom THEN "check_bloom" ELSE "no_check_bloom"

\* lock objects are told apart by their order of creation; no lock yet
NoLock == 0

IdleFrame ==
    [op |-> "none", key |-> <<>>, check_bloom |-> TRUE, ttl |-> NoTtl,
     use_random_ttl |-> TRUE, value |-> None, keys |-> {},
     result |-> NoResult,
     \* history of the call
     fetched |-> FALSE, seen |-> NoEvent, filter_negative |-> FALSE,
     double_check_hit |-> FALSE, failed_at |-> "none", fetch_exc |-> "none",
     after_failure |-> NoFailure, waited |-> FALSE, lock |-> NoLock,
     \* the call of the todo service that made the call
     service |-> "none", todo_id |-> 0, user_id |-> 0, after_update |-> FALSE]

Init ==
    /\ variant \in {"sync", "async"}
    /\ redis = [k \in Keys |-> NoEntry]
    /\ todos = [i \in TodoIds |-> [id |-> i, user_id |-> 1, completed |-> FALSE]]
    /\ \E old \in {{}, PeerItems} :
          /\ bits = bloom_add_batch({}, old)
          /\ recorded = old
    /\ redis_client = IF variant = "sync" THEN "client" ELSE NoClient
    /\ bloom_filter = IF variant = "sync" THEN "filter" ELSE NoClient
    /\ connecting = {}
    /\ locks = [k \in Keys |-> NoLock]
    /\ lock_owner = [k \in Keys |-> NoOne]
    /\ pc = [p \in Procs |-> "idle"]
    /\ frame = [p \in Procs |-> IdleFrame]
    /\ ops_started = 0
    /\ faults = 0
    /\ expiries = 0
    /\ fetch_count = [k \in Keys |-> 0]
    /\ fetch_failed = [k \in Keys |-> NoFailure]
    /\ shadow = [k \in Keys |-> NoEvent]

(***************************************************************************)
(* Helpers of the steps.                                                   *)
(***************************************************************************)
Goto(p, label) == pc' = [pc EXCEPT ![p] = label]

\* p is between two calls
Free(p) == pc[p] \in {"idle", "done"}

\* A call starts on a free handler.  Handlers are interchangeable and keep
\* nothing from one call to the next, so a call that starts while no call is
\* running is given to the first handler.
CanStart(p) ==
    /\ Free(p)
    /\ ops_started < MaxOps
    /\ p = FirstProc \/ ~Free(FirstProc)
SetFrame(p, f) == frame' = [frame EXCEPT ![p] = f]

\* the call of p ends: it returns or raises `result`
Complete(p, f, result) ==
    /\ pc' = [pc EXCEPT ![p] = "done"]
    /\ frame' = [frame EXCEPT ![p] = [f EXCEPT !.result = result]]

\* a variant of the exit of the block that keeps the lock
KeepHeld(k) == UNCHANGED lock_owner

\* leaving `with lock:` / `async with lock:`
Release(k) == lock_owner' = [lock_owner EXCEPT ![k] = NoOne]

\* p can issue a redis call: the client exists and p is not inside _get_redis
Ready(p) == p \notin connecting /\ redis_client # NoClient

\* the positions whose next step is a redis call
BackendPcs == {"gos_get1", "gos_bloom", "gos_set_null1", "gos_get2",
               "gos_set_null2", "gos_add_null", "gos_set", "gos_add",
               "set_setex", "del_delete", "dp_keys", "dp_delete",
               "upd_invalidate_todo", "upd_invalidate_user_todos",
               "dl_set_nx", "dl_delete"}
\* the positions inside the `with lock:` block of get_or_set
LockedPcs == {"gos_get2", "gos_fetch", "gos_set_null2", "gos_add_null",
              "gos_set", "gos_add"}

\* CacheManager.get
get(key) == Deserialize(redis[key].text)

\* a variant of the hit test: `if cached_value`
IsTruthy(cached_value) == cached_value \notin {None, EmptyList}

\* `if cached_value is not None`
IsHit(cached_value) == cached_value # None

\* the guard of step 2: sync `check_bloom`, async `check_bloom and self.bloom_filter`
ChecksFilter(check_bloom) ==
    IF variant = "sync" THEN check_bloom
    ELSE check_bloom /\ bloom_filter # NoClient

\* the guard of bloom_filter.add after a fetch: sync `if check_bloom`,
\* async `if self.bloom_filter`
RecordsKey(check_bloom) ==
    IF variant = "sync" THEN check_bloom ELSE bloom_filter # NoClient

\* a variant of set_null that stores the marker with the TTL of a value
ValueTtl(ttl) == IF ttl = NoTtl THEN default_ttl ELSE ttl

\* a variant of set_null that adds the jitter range to the TTL
JitteredNullTtl(ttl) == (IF ttl = NoTtl THEN null_ttl ELSE ttl) + random_range

\* set_null: `if ttl is None: ttl = self.null_ttl`
NullTtl(ttl) == IF ttl = NoTtl THEN null_ttl ELSE ttl

\* set: `if ttl is None: ttl = self.default_ttl`
BaseTtl(ttl) == IF ttl = NoTtl THEN default_ttl ELSE ttl

\* a variant of _get_random_ttl that adds the draw twice
TwiceJitter(base_ttl, jitter) == base_ttl + 2 * jitter

\* _get_random_ttl, with `jitter` the draw of random.randint(0, random_range)
Jitters == {j \in 0..random_range : j % JitterStride = 0}
get_random_ttl(base_ttl, jitter) == base_ttl + jitter

\* variants of the error paths: the error is swallowed into not-found
MaskedAsMiss(exc) == Returned(None)
FetchErrorSwallowed(exc) == Returned(None)

\* no handler catches a redis error: it leaves the call as it was raised
OnRedisError(exc) == Raised(exc)

\* get_or_set, sync: `except Exception as e: raise e`; async: no handler
OnFetchError(exc) == Raised(exc)

\* the keys that exist in the store
ExistingKeys ==
    {k \in DOMAIN redis : redis[k] # NoEntry}
       \cup (IF bits # {} THEN {BloomKey} ELSE {})

\* redis KEYS pattern
redis_keys(pattern) == {k \in ExistingKeys : GlobMatch(pattern, k)}

\* a variant of DEL that removes nothing
DelNothing(S) == redis

\* redis DEL of the keys S: the store afterwards
DelRedis(S) == [k \in DOMAIN redis |-> IF k \in S THEN NoEntry ELSE redis[k]]
DelBits(S) == IF BloomKey \in S THEN {} ELSE bits
DelShadow(S, by) ==
    [k \in DOMAIN shadow |-> IF k \in S THEN Event(by, None) ELSE shadow[k]]
\* the entries of the keys S, or the filter, have been written
Touched(S) ==
    fetch_failed' = [k \in DOMAIN fetch_failed |->
                        IF k \in S \/ BloomKey \in S THEN NoFailure
                        ELSE fetch_failed[k]]

\* what the steps of the cache manager leave alone: the connection and the
\* database
Unchanged_conn == UNCHANGED <<variant, todos, redis_client, bloom_filter, connecting>>
Unchanged_bounds == UNCHANGED <<ops_started, faults, expiries>>

(***************************************************************************)
(* _get_redis (async): the client and the filter are created after the     *)
(* await of from_url, in one step.                                         *)
(***************************************************************************)
GetRedisEnter(p) ==
    /\ pc[p] \in BackendPcs \ {"gos_bloom", "gos_add", "gos_add_null"}
    /\ redis_client = NoClient
    /\ p \notin connecting
    /\ connecting' = connecting \cup {p}
    /\ UNCHANGED <<variant, todos, redis, bits, redis_client, bloom_filter, locks,
                   lock_owner, pc, frame, ops_started, faults, expiries,
                   fetch_count, recorded, fetch_failed, shadow>>

\* a variant of _get_redis that leaves the filter for later
ClientOnly(p) ==
    /\ p \in connecting
    /\ redis_client' = "client"
    /\ connecting' = connecting \ {p}
    /\ UNCHANGED <<variant, todos, redis, bits, bloom_filter, locks, lock_owner, pc,
                   frame, ops_started, faults, expiries, fetch_count, recorded,
                   fetch_failed, shadow>>

GetRedisDone(p) ==
    /\ p \in connecting
    /\ redis_client' = "client"
    /\ bloom_filter' = "filter"
    /\ connecting' = connecting \ {p}
    /\ UNCHANGED <<variant, todos, redis, bits, locks, lock_owner, pc, frame,
                   ops_started, faults, expiries, fetch_count, recorded, fetch_failed, shadow>>

(***************************************************************************)
(* get_or_set(key, fetch_func, ttl, check_bloom)                           *)
(***************************************************************************)
Call_get_or_set(p, key, ttl, check_bloom) ==
    /\ CanStart(p)
    /\ ops_started' = ops_started + 1
    /\ Goto(p, "gos_get1")
    /\ SetFrame(p, [IdleFrame EXCEPT !.op = "get_or_set", !.key = key,
                                     !.ttl = ttl, !.check_bloom = check_bloom])
    /\ UNCHANGED <<variant, todos, redis, bits, redis_client, bloom_filter, connecting,
                   locks, lock_owner, faults, expiries, fetch_count, recorded, fetch_failed,
                   shadow>>

\* 1. cached_value = self.get(key); a hit returns
gos_get1(p) ==
    LET f == [frame[p] EXCEPT !.seen = shadow[frame[p].key],
                              !.after_failure = fetch_failed[frame[p].key]]
        cached_value == get(f.key)
    IN  /\ pc[p] = "gos_get1"
        /\ Ready(p)
        /\ IF IsHit(cached_value)
           THEN Complete(p, f, Returned(cached_value))
           ELSE /\ SetFrame(p, f)
                /\ Goto(p, IF ChecksFilter(f.check_bloom)
                           THEN "gos_bloom" ELSE "gos_get_lock")
        /\ UNCHANGED <<redis, bits, locks, lock_owner, fetch_count, recorded, fetch_failed, shadow>>
        /\ Unchanged_conn /\ Unchanged_bounds

\* 2. bloom_filter.exists(key)
gos_bloom(p) ==
    LET f == frame[p]
        exists == bloom_exists(bits, f.key)
    IN  /\ pc[p] = "gos_bloom"
        /\ Ready(p)
        /\ SetFrame(p, [f EXCEPT !.filter_negative = ~exists])
        /\ Goto(p, IF ~exists THEN "gos_set_null1" ELSE "gos_get_lock")
        /\ UNCHANGED <<redis, bits, locks, lock_owner, fetch_count, recorded, fetch_failed, shadow>>
        /\ Unchanged_conn /\ Unchanged_bounds

\* 2. the filter does not hold the key: self.set_null(key); return None
gos_set_null1(p) ==
    LET f == frame[p]
    IN  /\ pc[p] = "gos_set_null1"
        /\ Ready(p)
        /\ redis' = [redis EXCEPT ![f.key] = Entry(NullMarker, NullTtl(NoTtl))]
        /\ shadow' = [shadow EXCEPT ![f.key] = Event("null_filter", None)]
        /\ Complete(p, f, Returned(None))
        /\ UNCHANGED <<bits, locks, lock_owner, fetch_count, recorded>>
        /\ Touched({f.key})
        /\ Unchanged_conn /\ Unchanged_bounds

\* asyncio.Lock() / threading.Lock(): an object that is none of the registry's
NewLock(registry) ==
    LET ids == {registry[k] : k \in DOMAIN registry}
    IN  1 + CHOOSE m \in ids : \A i \in ids : i <= m

\* a variant of _get_lock that creates a lock at every call
AlwaysNewLock(registry, key) == [registry EXCEPT ![key] = NewLock(registry)]

\* _get_lock: `if key not in self._locks: self._locks[key] = Lock()`
get_lock(registry, key) ==
    IF registry[key] = NoLock
    THEN [registry EXCEPT ![key] = NewLock(registry)]
    ELSE registry

\* 3. lock = self._get_lock(key): the test, the creation and the return are
\* one step, made under _lock_dict_lock
gos_get_lock(p) ==
    /\ pc[p] = "gos_get_lock"
    /\ locks' = get_lock(locks, frame[p].key)
    /\ SetFrame(p, [frame[p] EXCEPT !.lock = locks'[frame[p].key]])
    /\ Goto(p, "gos_acquire")
    /\ UNCHANGED <<redis, bits, lock_owner, fetch_count, recorded, fetch_failed, shadow>>
    /\ Unchanged_conn /\ Unchanged_bounds

\* a variant of the acquisition that does not wait for the lock
AcquireAtOnce(p) ==
    /\ pc[p] = "gos_acquire"
    /\ lock_owner' = [lock_owner EXCEPT ![frame[p].key] = p]
    /\ Goto(p, "gos_get2")
    /\ UNCHANGED <<redis, bits, locks, frame, fetch_count, recorded,
                   fetch_failed, shadow>>
    /\ Unchanged_conn /\ Unchanged_bounds

\* a variant of the acquisition with one lock for all the keys
AcquireGlobal(p) ==
    /\ pc[p] = "gos_acquire"
    /\ \A k \in DOMAIN lock_owner : lock_owner[k] = NoOne
    /\ lock_owner' = [lock_owner EXCEPT ![frame[p].key] = p]
    /\ Goto(p, "gos_get2")
    /\ UNCHANGED <<redis, bits, locks, frame, fetch_count, recorded, fetch_failed, shadow>>
    /\ Unchanged_conn /\ Unchanged_bounds

\* 3. with lock: blocks until the lock is free
gos_acquire(p) ==
    /\ pc[p] = "gos_acquire"
    /\ lock_owner[frame[p].key] = NoOne
    /\ lock_owner' = [lock_owner EXCEPT ![frame[p].key] = p]
    /\ Goto(p, "gos_get2")
    /\ UNCHANGED <<redis, bits, locks, frame, fetch_count, recorded, fetch_failed, shadow>>
    /\ Unchanged_conn /\ Unchanged_bounds

\* the double check: cached_value = self.get(key); a hit returns
gos_get2(p) ==
    LET f == frame[p]
        cached_value == get(f.key)
    IN  /\ pc[p] = "gos_get2"
        /\ Ready(p)
        /\ IF IsHit(cached_value)
           THEN /\ Complete(p, [f EXCEPT !.double_check_hit = TRUE],
                            Returned(cached_value))
                /\ Release(f.key)
           ELSE /\ Goto(p, "gos_fetch")
                /\ UNCHANGED <<frame, lock_owner>>
        /\ UNCHANGED <<redis, bits, locks, fetch_count, recorded, fetch_failed, shadow>>
        /\ Unchanged_conn /\ Unchanged_bounds

\* 4. value = fetch_func(): it raises, or returns None or a value
gos_fetch(p) ==
    LET f == [frame[p] EXCEPT !.fetched = TRUE]
    IN  /\ pc[p] = "gos_fetch"
        /\ fetch_count' = [fetch_count EXCEPT ![f.key] = @ + 1]
        /\ \/ \E exc \in FetchErrors :
                /\ Complete(p, [f EXCEPT !.fetch_exc = exc], OnFetchError(exc))
                /\ Release(f.key)
                /\ fetch_failed' = [fetch_failed EXCEPT ![f.key] =
                                        FailedCall(f.check_bloom)]
           \/ \E value \in FetchValues :
                /\ SetFrame(p, [f EXCEPT !.value = value])
                /\ Goto(p, IF value = None THEN "gos_set_null2" ELSE "gos_set")
                /\ UNCHANGED <<lock_owner, fetch_failed>>
        /\ UNCHANGED <<redis, bits, locks, recorded, shadow>>
        /\ Unchanged_conn /\ Unchanged_bounds

\* value is None: self.set_null(key), then the filter add or the return
gos_set_null2(p) ==
    LET f == frame[p]
    IN  /\ pc[p] = "gos_set_null2"
        /\ Ready(p)
        /\ redis' = [redis EXCEPT ![f.key] = Entry(NullMarker, NullTtl(NoTtl))]
        /\ shadow' = [shadow EXCEPT ![f.key] = Event("null_fetch", None)]
        /\ IF RecordsKey(f.check_bloom)
           THEN Goto(p, "gos_add_null") /\ UNCHANGED <<frame, lock_owner>>
           ELSE Complete(p, f, Returned(None)) /\ Release(f.key)
        /\ UNCHANGED <<bits, locks, fetch_count, recorded>>
        /\ Touched({f.key})
        /\ Unchanged_conn /\ Unchanged_bounds

\* value is None: self.bloom_filter.add(key); return None
gos_add_null(p) ==
    LET f == frame[p]
    IN  /\ pc[p] = "gos_add_null"
        /\ Ready(p)
        /\ bits' = bloom_add(bits, f.key)
        /\ recorded' = recorded \cup {f.key}
        /\ Complete(p, f, Returned(None))
        /\ Release(f.key)
        /\ UNCHANGED <<redis, locks, fetch_count, shadow>>
        /\ Touched({f.key})
        /\ Unchanged_conn /\ Unchanged_bounds

\* value is not None: self.set(key, value, ttl=ttl), then the filter add or
\* the return
gos_set(p, jitter) ==
    LET f == frame[p]
    IN  /\ pc[p] = "gos_set"
        /\ Ready(p)
        /\ redis' = [redis EXCEPT ![f.key] =
              Entry(Serialize(f.value), get_random_ttl(BaseTtl(f.ttl), jitter))]
        /\ shadow' = [shadow EXCEPT ![f.key] = Event("get_or_set", f.value)]
        /\ IF RecordsKey(f.check_bloom)
           THEN Goto(p, "gos_add") /\ UNCHANGED <<frame, lock_owner>>
           ELSE Complete(p, f, Returned(f.value)) /\ Release(f.key)
        /\ UNCHANGED <<bits, locks, fetch_count, recorded>>
        /\ Touched({f.key})
        /\ Unchanged_conn /\ Unchanged_bounds

\* value is not None: self.bloom_filter.add(key); return value
gos_add(p) ==
    LET f == frame[p]
    IN  /\ pc[p] = "gos_add"
        /\ Ready(p)
        /\ bits' = bloom_add(bits, f.key)
        /\ recorded' = recorded \cup {f.key}
        /\ Complete(p, f, Returned(f.value))
        /\ Release(f.key)
        /\ UNCHANGED <<redis, locks, fetch_count, shadow>>
        /\ Touched({f.key})
        /\ Unchanged_conn /\ Unchanged_bounds

(***************************************************************************)
(* set(key, value, ttl, use_random_ttl)                                    *)
(***************************************************************************)
Call_set(p, key, value, ttl, use_random_ttl) ==
    /\ CanStart(p)
    /\ ops_started' = ops_started + 1
    /\ Goto(p, "set_setex")
    /\ SetFrame(p, [IdleFrame EXCEPT !.op = "set", !.key = key, !.value = value,
                                     !.ttl = ttl, !.use_random_ttl = use_random_ttl])
    /\ UNCHANGED <<variant, todos, redis, bits, redis_client, bloom_filter, connecting,
                   locks, lock_owner, faults, expiries, fetch_count, recorded, fetch_failed,
                   shadow>>

\* `jitter` is the draw of random.randint, read only `if use_random_ttl`
set_setex(p, jitter) ==
    LET f == frame[p]
        ttl == IF f.use_random_ttl THEN get_random_ttl(BaseTtl(f.ttl), jitter)
               ELSE BaseTtl(f.ttl)
    IN  /\ pc[p] = "set_setex"
        /\ Ready(p)
        /\ redis' = [redis EXCEPT ![f.key] = Entry(Serialize(f.value), ttl)]
        /\ shadow' = [shadow EXCEPT ![f.key] = Event("set", f.value)]
        /\ Complete(p, f, Returned(PyTrue))
        /\ UNCHANGED <<bits, locks, lock_owner, fetch_count, recorded>>
        /\ Touched({f.key})
        /\ Unchanged_conn /\ Unchanged_bounds

(***************************************************************************)
(* delete(key) and invalidate_todo(todo_id)                                *)
(***************************************************************************)
Call_delete(p, key) ==
    /\ CanStart(p)
    /\ ops_started' = ops_started + 1
    /\ Goto(p, "del_delete")
    /\ SetFrame(p, [IdleFrame EXCEPT !.op = "delete", !.key = key])
    /\ UNCHANGED <<variant, todos, redis, bits, redis_client, bloom_filter, connecting,
                   locks, lock_owner, faults, expiries, fetch_count, recorded, fetch_failed,
                   shadow>>

Call_invalidate_todo(p, todo_id) ==
    /\ CanStart(p)
    /\ ops_started' = ops_started + 1
    /\ Goto(p, "del_delete")
    /\ SetFrame(p, [IdleFrame EXCEPT !.op = "invalidate_todo",
                                     !.key = TodoKey(todo_id)])
    /\ UNCHANGED <<variant, todos, redis, bits, redis_client, bloom_filter, connecting,
                   locks, lock_owner, faults, expiries, fetch_count, recorded, fetch_failed,
                   shadow>>

\* bool(redis_client.delete(key)); invalidate_todo returns None
del_delete(p) ==
    LET f == frame[p]
        deleted == f.key \in ExistingKeys
    IN  /\ pc[p] = "del_delete"
        /\ Ready(p)
        /\ redis' = DelRedis({f.key})
        /\ bits' = DelBits({f.key})
        /\ shadow' = DelShadow({f.key}, "delete")
        /\ Complete(p, f, IF f.op = "invalidate_todo" THEN Returned(None)
                          ELSE Returned(PyValue("bool", IF deleted THEN "true" ELSE "false")))
        /\ UNCHANGED <<locks, lock_owner, fetch_count, recorded>>
        /\ Touched({f.key})
        /\ Unchanged_conn /\ Unchanged_bounds

(***************************************************************************)
(* delete_pattern(pattern) and invalidate_user_todos(user_id)              *)
(***************************************************************************)
Call_delete_pattern(p, pattern) ==
    /\ CanStart(p)
    /\ ops_started' = ops_started + 1
    /\ Goto(p, "dp_keys")
    /\ SetFrame(p, [IdleFrame EXCEPT !.op = "delete_pattern", !.key = pattern])
    /\ UNCHANGED <<variant, todos, redis, bits, redis_client, bloom_filter, connecting,
                   locks, lock_owner, faults, expiries, fetch_count, recorded, fetch_failed,
                   shadow>>

Call_invalidate_user_todos(p, user_id) ==
    /\ CanStart(p)
    /\ ops_started' = ops_started + 1
    /\ Goto(p, "dp_keys")
    /\ SetFrame(p, [IdleFrame EXCEPT !.op = "invalidate_user_todos",
                                     !.key = UserTodosKey(user_id)])
    /\ UNCHANGED <<variant, todos, redis, bits, redis_client, bloom_filter, connecting,
                   locks, lock_owner, faults, expiries, fetch_count, recorded, fetch_failed,
                   shadow>>

\* keys = redis_client.keys(pattern); without keys the call returns 0
dp_keys(p) ==
    LET f == [frame[p] EXCEPT !.keys = redis_keys(frame[p].key)]
    IN  /\ pc[p] = "dp_keys"
        /\ Ready(p)
        /\ IF f.keys = {}
           THEN Complete(p, f, IF f.op = "invalidate_user_todos"
                               THEN Returned(None) ELSE Returned(PyInt("0")))
           ELSE SetFrame(p, f) /\ Goto(p, "dp_delete")
        /\ UNCHANGED <<redis, bits, locks, lock_owner, fetch_count, recorded, fetch_failed, shadow>>
        /\ Unchanged_conn /\ Unchanged_bounds

\* redis_client.delete(*keys): the number of keys it removed
dp_delete(p) ==
    LET f == frame[p]
        removed == Cardinality(f.keys \cap ExistingKeys)
    IN  /\ pc[p] = "dp_delete"
        /\ Ready(p)
        /\ redis' = DelRedis(f.keys)
        /\ bits' = DelBits(f.keys)
        /\ shadow' = DelShadow(f.keys \cap DOMAIN shadow, "delete_pattern")
        /\ Complete(p, f, IF f.op = "invalidate_user_todos"
                          THEN Returned(None) ELSE Returned(PyInt(ToString(removed))))
        /\ UNCHANGED <<locks, lock_owner, fetch_count, recorded>>
        /\ Touched(f.keys)
        /\ Unchanged_conn /\ Unchanged_bounds

(***************************************************************************)
(* The environment: a redis call fails, an entry expires.                  *)
(***************************************************************************)
\* the redis call p is about to make raises a connection error
RedisFails(p) ==
    LET f == [frame[p] EXCEPT !.failed_at = pc[p]]
    IN  /\ pc[p] \in BackendPcs
        /\ Ready(p)
        /\ faults < MaxFaults
        /\ faults' = faults + 1
        /\ Complete(p, f, OnRedisError(ConnectionError))
        /\ IF pc[p] \in LockedPcs THEN Release(f.key) ELSE UNCHANGED lock_owner
        /\ UNCHANGED <<redis, bits, locks, ops_started, expiries, fetch_count,
                       recorded, fetch_failed, shadow>>
        /\ Unchanged_conn

\* the TTL of the entry of key runs out
Expire(key) ==
    /\ redis[key] # NoEntry
    /\ expiries < MaxExpiries
    /\ expiries' = expiries + 1
    /\ redis' = [redis EXCEPT ![key] = NoEntry]
    /\ shadow' = [shadow EXCEPT ![key] = Event("expire", None)]
    /\ UNCHANGED <<bits, locks, lock_owner, pc, frame, ops_started, faults,
                   fetch_count, recorded>>
    /\ Touched({key})
    /\ Unchanged_conn

Next ==
    \/ \E p \in Procs : GetRedisEnter(p)
    \/ \E p \in Procs : GetRedisDone(p)
    \/ \E p \in Procs, key \in Keys, ttl \in TtlArgs, check_bloom \in BOOLEAN :
          Call_get_or_set(p, key, ttl, check_bloom)
    \/ \E p \in Procs : gos_get1(p)
    \/ \E p \in Procs : gos_bloom(p)
    \/ \E p \in Procs : gos_set_null1(p)
    \/ \E p \in Procs : gos_get_lock(p)
    \/ \E p \in Procs : gos_acquire(p)
    \/ \E p \in Procs : gos_get2(p)
    \/ \E p \in Procs : gos_fetch(p)
    \/ \E p \in Procs : gos_set_null2(p)
    \/ \E p \in Procs : gos_add_null(p)
    \/ \E p \in Procs, jitter \in Jitters : gos_set(p, jitter)
    \/ \E p \in Procs : gos_add(p)
    \/ \E p \in Procs, key \in Keys, value \in SetValues, ttl \in TtlArgs,
          use_random_ttl \in BOOLEAN : Call_set(p, key, value, ttl, use_random_ttl)
    \/ \E p \in Procs, jitter \in Jitters : set_setex(p, jitter)
    \/ \E p \in Procs, key \in Keys : Call_delete(p, key)
    \/ \E p \in Procs, todo_id \in TodoIds : Call_invalidate_todo(p, todo_id)
    \/ \E p \in Procs : del_delete(p)
    \/ \E p \in Procs, pattern \in Patterns : Call_delete_pattern(p, pattern)
    \/ \E p \in Procs, user_id \in UserIds : Call_invalidate_user_todos(p, user_id)
    \/ \E p \in Procs : dp_keys(p)
    \/ \E p \in Procs : dp_delete(p)
    \/ \E p \in Procs : RedisFails(p)
    \/ \E key \in Keys : Expire(key)

Spec == Init /\ [][Next]_vars

(***************************************************************************)
(* The sequential specification: one caller makes get_or_set and set calls *)
(* one after the other, with ttl arguments, finer jitter draws and a str   *)
(* value that is not JSON.  No redis call fails and no entry expires.      *)
(***************************************************************************)
SeqTtlArgs == {NoTtl, 1800}
SeqSetValues == SetValues \cup {PyStr("hello"), PyStr("123")}
FineJitters == {j \in 0..random_range : j % FineStride = 0}

SeqNext ==
    \/ GetRedisEnter(FirstProc)
    \/ GetRedisDone(FirstProc)
    \/ \E key \in Keys, ttl \in SeqTtlArgs, check_bloom \in BOOLEAN :
          Call_get_or_set(FirstProc, key, ttl, check_bloom)
    \/ gos_get1(FirstProc)
    \/ gos_bloom(FirstProc)
    \/ gos_set_null1(FirstProc)
    \/ gos_get_lock(FirstProc)
    \/ gos_acquire(FirstProc)
    \/ gos_get2(FirstProc)
    \/ gos_fetch(FirstProc)
    \/ gos_set_null2(FirstProc)
    \/ gos_add_null(FirstProc)
    \/ \E jitter \in FineJitters : gos_set(FirstProc, jitter)
    \/ gos_add(FirstProc)
    \/ \E key \in Keys, value \in SeqSetValues, ttl \in SeqTtlArgs,
          use_random_ttl \in BOOLEAN :
          Call_set(FirstProc, key, value, ttl, use_random_ttl)
    \/ \E jitter \in FineJitters : set_setex(FirstProc, jitter)

SeqSpec == Init /\ [][SeqNext]_vars

(***************************************************************************)
(* The specification of progress: two callers make get_or_set calls; a     *)
(* redis call may fail and, in the async variant, the task of a call may   *)
(* be cancelled where it is suspended.  Every step of a call that is not   *)
(* blocked is eventually taken: redis calls and fetch terminate, and a     *)
(* lock that stays free is given to a caller that waits for it.            *)
(***************************************************************************)
CancelledError == "CancelledError"

\* `with lock:` finds the lock held: the caller blocks
gos_wait(p) ==
    /\ pc[p] = "gos_acquire"
    /\ lock_owner[frame[p].key] # NoOne
    /\ ~frame[p].waited
    /\ SetFrame(p, [frame[p] EXCEPT !.waited = TRUE])
    /\ UNCHANGED <<redis, bits, locks, lock_owner, pc, fetch_count, recorded,
                   fetch_failed, shadow>>
    /\ Unchanged_conn /\ Unchanged_bounds

\* the positions at which the task of a call is suspended: a redis call,
\* the fetch, the wait for a held lock
Suspended(p) ==
    \/ pc[p] \in BackendPcs \cup {"gos_fetch"}
    \/ pc[p] = "gos_acquire" /\ lock_owner[frame[p].key] # NoOne

\* task.cancel(): CancelledError is raised in the call where it is
\* suspended; `async with lock` releases the lock on the way out
Cancel(p) ==
    LET f == [frame[p] EXCEPT !.failed_at = pc[p],
                              !.fetched = @ \/ pc[p] = "gos_fetch"]
    IN  /\ variant = "async"
        /\ Suspended(p)
        /\ faults < MaxFaults
        /\ faults' = faults + 1
        /\ connecting' = connecting \ {p}
        /\ fetch_count' = IF pc[p] = "gos_fetch"
                          THEN [fetch_count EXCEPT ![f.key] = @ + 1]
                          ELSE fetch_count
        /\ Complete(p, f, Raised(CancelledError))
        /\ IF pc[p] \in LockedPcs THEN Release(f.key) ELSE UNCHANGED lock_owner
        /\ UNCHANGED <<variant, todos, redis, bits, redis_client, bloom_filter, locks,
                       ops_started, expiries, recorded, fetch_failed, shadow>>

LiveNext ==
    \/ \E p \in Procs : GetRedisEnter(p)
    \/ \E p \in Procs : GetRedisDone(p)
    \/ \E p \in Procs, key \in Keys, ttl \in TtlArgs, check_bloom \in BOOLEAN :
          Call_get_or_set(p, key, ttl, check_bloom)
    \/ \E p \in Procs : gos_get1(p)
    \/ \E p \in Procs : gos_bloom(p)
    \/ \E p \in Procs : gos_set_null1(p)
    \/ \E p \in Procs : gos_get_lock(p)
    \/ \E p \in Procs : gos_wait(p)
    \/ \E p \in Procs : gos_acquire(p)
    \/ \E p \in Procs : gos_get2(p)
    \/ \E p \in Procs : gos_fetch(p)
    \/ \E p \in Procs : gos_set_null2(p)
    \/ \E p \in Procs : gos_add_null(p)
    \/ \E p \in Procs, jitter \in Jitters : gos_set(p, jitter)
    \/ \E p \in Procs : gos_add(p)
    \/ \E p \in Procs : RedisFails(p)
    \/ \E p \in Procs : Cancel(p)

\* the steps of the call of p
gos_step(p) ==
    \/ GetRedisEnter(p) \/ GetRedisDone(p)
    \/ gos_get1(p) \/ gos_bloom(p) \/ gos_set_null1(p) \/ gos_get_lock(p)
    \/ gos_acquire(p) \/ gos_get2(p) \/ gos_fetch(p) \/ gos_set_null2(p)
    \/ gos_add_null(p) \/ (\E jitter \in Jitters : gos_set(p, jitter))
    \/ gos_add(p)

LiveFairness == \A p \in Procs : WF_vars(gos_step(p))

LiveSpec == Init /\ [][LiveNext]_vars /\ LiveFairness

(***************************************************************************)
(* The todo service (fastapi-app/services/todo_service.py) on the cache    *)
(* manager: get_todo reads a todo through get_or_set, with a fetch that    *)
(* queries the todos table for the calling user; update_todo writes the    *)
(* table and then invalidates.  No redis call fails and no entry expires.  *)
(***************************************************************************)
\* calls of the todo service started in one behaviour
MaxCalls == 3

NotFoundException == "NotFoundException"

\* TodoRepository.get_by_id: the row with this id and this owner
get_by_id(table, todo_id, user_id) ==
    IF table[todo_id].user_id = user_id THEN table[todo_id] ELSE NoRow

\* get_todo, after get_or_set: `if todo is None: raise NotFoundException`
get_todo_result(result) ==
    IF result = Returned(None) THEN Raised(NotFoundException) ELSE result

CanCall(p) ==
    /\ Free(p)
    /\ ops_started < MaxCalls
    /\ p = FirstProc \/ ~Free(FirstProc)

\* an update_todo of the todo has written the table and its invalidate_todo
\* has returned
Invalidated(todo_id) ==
    \E q \in Procs :
       /\ frame[q].service = "update_todo" /\ frame[q].todo_id = todo_id
       /\ pc[q] \in {"upd_invalidate_user_todos", "done"}
       /\ frame[q].result.kind # "raise"

\* get_todo(todo_id, user_id): get_or_set(f"todo:{todo_id}", fetch_todo,
\* ttl=3600), check_bloom left at its default
Call_get_todo(p, todo_id, user_id) ==
    /\ CanCall(p)
    /\ ops_started' = ops_started + 1
    /\ Goto(p, "gos_get1")
    /\ SetFrame(p, [IdleFrame EXCEPT !.op = "get_or_set",
                                     !.key = TodoKey(todo_id),
                                     !.ttl = 3600, !.check_bloom = TRUE,
                                     !.service = "get_todo",
                                     !.todo_id = todo_id, !.user_id = user_id,
                                     !.after_update = Invalidated(todo_id)])
    /\ UNCHANGED <<variant, todos, redis, bits, redis_client, bloom_filter,
                   connecting, locks, lock_owner, faults, expiries,
                   fetch_count, recorded, fetch_failed, shadow>>

\* fetch_todo: todo_repo.get_by_id(todo_id, user_id), None `if not todo`
fetch_todo(p) ==
    LET f == [frame[p] EXCEPT !.fetched = TRUE]
        todo == get_by_id(todos, f.todo_id, f.user_id)
        value == IF todo = NoRow THEN None ELSE to_dict(todo)
    IN  /\ pc[p] = "gos_fetch"
        /\ f.service = "get_todo"
        /\ fetch_count' = [fetch_count EXCEPT ![f.key] = @ + 1]
        /\ SetFrame(p, [f EXCEPT !.value = value])
        /\ Goto(p, IF value = None THEN "gos_set_null2" ELSE "gos_set")
        /\ UNCHANGED <<redis, bits, locks, lock_owner, recorded, fetch_failed,
                       shadow>>
        /\ Unchanged_conn /\ Unchanged_bounds

\* update_todo(todo_id, user_id, completed=True)
Call_update_todo(p, todo_id, user_id) ==
    /\ CanCall(p)
    /\ ops_started' = ops_started + 1
    /\ Goto(p, "upd_repo")
    /\ SetFrame(p, [IdleFrame EXCEPT !.op = "update_todo",
                                     !.key = TodoKey(todo_id),
                                     !.service = "update_todo",
                                     !.todo_id = todo_id, !.user_id = user_id])
    /\ UNCHANGED <<variant, todos, redis, bits, redis_client, bloom_filter,
                   connecting, locks, lock_owner, faults, expiries,
                   fetch_count, recorded, fetch_failed, shadow>>

\* todo_repo.update: NotFoundException without the row, else the row is
\* written and committed
upd_repo(p) ==
    LET f == frame[p]
        todo == get_by_id(todos, f.todo_id, f.user_id)
    IN  /\ pc[p] = "upd_repo"
        /\ IF todo = NoRow
           THEN /\ Complete(p, f, Raised(NotFoundException))
                /\ UNCHANGED todos
           ELSE /\ todos' = [todos EXCEPT ![f.todo_id].completed = TRUE]
                /\ SetFrame(p, [f EXCEPT !.value = to_dict(todos'[f.todo_id])])
                /\ Goto(p, "upd_invalidate_todo")
        /\ UNCHANGED <<variant, redis, bits, redis_client, bloom_filter,
                       connecting, locks, lock_owner, fetch_count, recorded,
                       fetch_failed, shadow>>
        /\ Unchanged_bounds

\* self.cache.invalidate_todo(todo_id): redis DEL of "todo:<id>"
upd_invalidate_todo(p) ==
    LET f == frame[p]
    IN  /\ pc[p] = "upd_invalidate_todo"
        /\ Ready(p)
        /\ redis' = DelRedis({f.key})
        /\ bits' = DelBits({f.key})
        /\ shadow' = DelShadow({f.key}, "delete")
        /\ Goto(p, "upd_invalidate_user_todos")
        /\ UNCHANGED <<locks, lock_owner, frame, fetch_count, recorded>>
        /\ Touched({f.key})
        /\ Unchanged_conn /\ Unchanged_bounds

\* self.cache.invalidate_user_todos(user_id), then `return todo.to_dict()`:
\* redis KEYS of "todos:user:<user_id>" and DEL of the keys it lists (the
\* todo service of this specification caches no list, so that KEYS lists
\* nothing and no DEL follows)
upd_invalidate_user_todos(p) ==
    LET f == frame[p]
        keys == redis_keys(UserTodosKey(f.user_id))
    IN  /\ pc[p] = "upd_invalidate_user_todos"
        /\ Ready(p)
        /\ redis' = DelRedis(keys)
        /\ bits' = DelBits(keys)
        /\ shadow' = DelShadow(keys \cap DOMAIN shadow, "delete_pattern")
        /\ Complete(p, [f EXCEPT !.keys = keys], Returned(f.value))
        /\ UNCHANGED <<locks, lock_owner, fetch_count, recorded>>
        /\ Touched(keys)
        /\ Unchanged_conn /\ Unchanged_bounds

TodoNext ==
    \/ \E p \in Procs : GetRedisEnter(p)
    \/ \E p \in Procs : GetRedisDone(p)
    \/ \E p \in Procs, todo_id \in TodoIds, user_id \in Owners :
          Call_get_todo(p, todo_id, user_id)
    \/ \E p \in Procs : gos_get1(p)
    \/ \E p \in Procs : gos_bloom(p)
    \/ \E p \in Procs : gos_set_null1(p)
    \/ \E p \in Procs : gos_get_lock(p)
    \/ \E p \in Procs : gos_acquire(p)
    \/ \E p \in Procs : gos_get2(p)
    \/ \E p \in Procs : fetch_todo(p)
    \/ \E p \in Procs : gos_set_null2(p)
    \/ \E p \in Procs : gos_add_null(p)
    \/ \E p \in Procs, jitter \in Jitters : gos_set(p, jitter)
    \/ \E p \in Procs : gos_add(p)
    \/ \E p \in Procs, todo_id \in TodoIds, user_id \in Owners :
          Call_update_todo(p, todo_id, user_id)
    \/ \E p \in Procs : upd_repo(p)
    \/ \E p \in Procs : upd_invalidate_todo(p)
    \/ \E p \in Procs : upd_invalidate_user_todos(p)

\* the todo service exists in the fastapi application only
TodoInit == Init /\ variant = "async"

TodoSpec == TodoInit /\ [][TodoNext]_vars

(***************************************************************************)
(* The specification of the invalidation helpers: the store holds any      *)
(* subset of the item entries and list entries of several ids, one of      *)
(* them a prefix of another, and two callers make invalidate_todo and      *)
(* invalidate_user_todos calls.                                            *)
(***************************************************************************)
InvTodoIds == {1, 12}
InvUserIds == {1, 2, 12}
InvKeys == {TodoKey(i) : i \in InvTodoIds} \cup {UserTodosKey(u) : u \in InvUserIds}

InvInit ==
    /\ variant \in {"sync", "async"}
    /\ \E present \in SUBSET InvKeys :
          redis = [k \in InvKeys |-> IF k \in present
                                     THEN Entry(Serialize(Todo2), default_ttl)
                                     ELSE NoEntry]
    /\ todos = [i \in TodoIds |-> [id |-> i, user_id |-> 1, completed |-> FALSE]]
    /\ \E old \in {{}, PeerItems} :
          /\ bits = bloom_add_batch({}, old)
          /\ recorded = old
    /\ redis_client = IF variant = "sync" THEN "client" ELSE NoClient
    /\ bloom_filter = IF variant = "sync" THEN "filter" ELSE NoClient
    /\ connecting = {}
    /\ locks = [k \in Keys |-> NoLock]
    /\ lock_owner = [k \in Keys |-> NoOne]
    /\ pc = [p \in Procs |-> "idle"]
    /\ frame = [p \in Procs |-> IdleFrame]
    /\ ops_started = 0
    /\ faults = 0
    /\ expiries = 0
    /\ fetch_count = [k \in Keys |-> 0]
    /\ fetch_failed = [k \in Keys |-> NoFailure]
    /\ shadow = [k \in Keys |-> NoEvent]

InvNext ==
    \/ \E p \in Procs : GetRedisEnter(p)
    \/ \E p \in Procs : GetRedisDone(p)
    \/ \E p \in Procs, todo_id \in InvTodoIds : Call_invalidate_todo(p, todo_id)
    \/ \E p \in Procs : del_delete(p)
    \/ \E p \in Procs, user_id \in InvUserIds : Call_invalidate_user_todos(p, user_id)
    \/ \E p \in Procs : dp_keys(p)
    \/ \E p \in Procs : dp_delete(p)

InvSpec == InvInit /\ [][InvNext]_vars

(***************************************************************************)
(* The specification of concurrent rebuilds of different keys: two callers *)
(* make get_or_set calls for the item entry and the list entry.            *)
(***************************************************************************)
PairKeys == {TodoKey(1), UserTodosKey(1)}

PairInit ==
    /\ variant \in {"sync", "async"}
    /\ redis = [k \in PairKeys |-> NoEntry]
    /\ todos = [i \in TodoIds |-> [id |-> i, user_id |-> 1, completed |-> FALSE]]
    /\ \E old \in {{}, PeerItems} :
          /\ bits = bloom_add_batch({}, old)
          /\ recorded = old
    /\ redis_client = IF variant = "sync" THEN "client" ELSE NoClient
    /\ bloom_filter = IF variant = "sync" THEN "filter" ELSE NoClient
    /\ connecting = {}
    /\ locks = [k \in PairKeys |-> NoLock]
    /\ lock_owner = [k \in PairKeys |-> NoOne]
    /\ pc = [p \in Procs |-> "idle"]
    /\ frame = [p \in Procs |-> IdleFrame]
    /\ ops_started = 0
    /\ faults = 0
    /\ expiries = 0
    /\ fetch_count = [k \in PairKeys |-> 0]
    /\ fetch_failed = [k \in PairKeys |-> NoFailure]
    /\ shadow = [k \in PairKeys |-> NoEvent]

PairNext ==
    \/ \E p \in Procs : GetRedisEnter(p)
    \/ \E p \in Procs : GetRedisDone(p)
    \/ \E p \in Procs, key \in PairKeys, check_bloom \in BOOLEAN :
          Call_get_or_set(p, key, NoTtl, check_bloom)
    \/ \E p \in Procs : gos_get1(p)
    \/ \E p \in Procs : gos_bloom(p)
    \/ \E p \in Procs : gos_set_null1(p)
    \/ \E p \in Procs : gos_get_lock(p)
    \/ \E p \in Procs : gos_acquire(p)
    \/ \E p \in Procs : gos_get2(p)
    \/ \E p \in Procs : gos_fetch(p)
    \/ \E p \in Procs : gos_set_null2(p)
    \/ \E p \in Procs : gos_add_null(p)
    \/ \E p \in Procs, jitter \in Jitters : gos_set(p, jitter)
    \/ \E p \in Procs : gos_add(p)

PairSpec == PairInit /\ [][PairNext]_vars

(***************************************************************************)
(* The distributed lock of the async cache manager: callers try to acquire *)
(* the lock of a key of the store, work while they hold it and release it; *)
(* the lock's TTL may run out at any time.                                 *)
(***************************************************************************)
lock_ttl == 10
LockKeys == {<<"l", "o", "c", "k", ":", "a">>, <<"l", "o", "c", "k", ":", "b">>}

DLockInit ==
    /\ variant = "async"
    /\ redis = [k \in LockKeys |-> NoEntry]
    /\ todos = [i \in TodoIds |-> [id |-> i, user_id |-> 1, completed |-> FALSE]]
    /\ bits = {}
    /\ recorded = {}
    /\ redis_client = NoClient
    /\ bloom_filter = NoClient
    /\ connecting = {}
    /\ locks = [k \in Keys |-> NoLock]
    /\ lock_owner = [k \in Keys |-> NoOne]
    /\ pc = [p \in Procs |-> "idle"]
    /\ frame = [p \in Procs |-> IdleFrame]
    /\ ops_started = 0
    /\ faults = 0
    /\ expiries = 0
    /\ fetch_count = [k \in Keys |-> 0]
    /\ fetch_failed = [k \in Keys |-> NoFailure]
    /\ shadow = [k \in LockKeys |-> NoEvent]

\* _acquire_distributed_lock(lock_key)
Call_acquire_distributed_lock(p, lock_key) ==
    /\ CanStart(p)
    /\ ops_started' = ops_started + 1
    /\ Goto(p, "dl_set_nx")
    /\ SetFrame(p, [IdleFrame EXCEPT !.op = "acquire_distributed_lock",
                                     !.key = lock_key])
    /\ UNCHANGED <<variant, todos, redis, bits, redis_client, bloom_filter,
                   connecting, locks, lock_owner, faults, expiries,
                   fetch_count, recorded, fetch_failed, shadow>>

\* redis_client.set(lock_key, "1", ex=self.lock_ttl, nx=True); the caller
\* that is returned True goes on to its work
dl_set_nx(p) ==
    LET f == frame[p]
        result == redis[f.key] = NoEntry
    IN  /\ pc[p] = "dl_set_nx"
        /\ Ready(p)
        /\ IF result
           THEN /\ redis' = [redis EXCEPT ![f.key] = Entry("1", lock_ttl)]
                /\ shadow' = [shadow EXCEPT ![f.key] = Event(p, None)]
                /\ SetFrame(p, [f EXCEPT !.result = Returned(PyTrue)])
                /\ Goto(p, "dl_holding")
           ELSE /\ Complete(p, f, Returned(PyValue("bool", "false")))
                /\ UNCHANGED <<redis, shadow>>
        /\ UNCHANGED <<bits, locks, lock_owner, fetch_count, recorded,
                       fetch_failed>>
        /\ Unchanged_conn /\ Unchanged_bounds

\* _release_distributed_lock(lock_key), called by a caller that acquired it
Call_release_distributed_lock(p) ==
    /\ pc[p] = "dl_holding"
    /\ Goto(p, "dl_delete")
    /\ SetFrame(p, [frame[p] EXCEPT !.op = "release_distributed_lock"])
    /\ UNCHANGED <<redis, bits, locks, lock_owner, fetch_count, recorded,
                   fetch_failed, shadow>>
    /\ Unchanged_conn /\ Unchanged_bounds

\* redis_client.delete(lock_key)
dl_delete(p) ==
    LET f == frame[p]
    IN  /\ pc[p] = "dl_delete"
        /\ Ready(p)
        /\ redis' = [redis EXCEPT ![f.key] = NoEntry]
        /\ shadow' = [shadow EXCEPT ![f.key] = NoEvent]
        /\ Complete(p, f, Returned(None))
        /\ UNCHANGED <<bits, locks, lock_owner, fetch_count, recorded,
                       fetch_failed>>
        /\ Unchanged_conn /\ Unchanged_bounds

\* the TTL of the lock of lock_key runs out
dl_expire(lock_key) ==
    /\ redis[lock_key] # NoEntry
    /\ expiries < MaxExpiries
    /\ expiries' = expiries + 1
    /\ redis' = [redis EXCEPT ![lock_key] = NoEntry]
    /\ shadow' = [shadow EXCEPT ![lock_key] = NoEvent]
    /\ UNCHANGED <<bits, locks, lock_owner, pc, frame, ops_started, faults,
                   fetch_count, recorded, fetch_failed>>
    /\ Unchanged_conn

DLockNext ==
    \/ \E p \in Procs : GetRedisEnter(p)
    \/ \E p \in Procs : GetRedisDone(p)
    \/ \E p \in Procs, lock_key \in LockKeys :
          Call_acquire_distributed_lock(p, lock_key)
    \/ \E p \in Procs : dl_set_nx(p)
    \/ \E p \in Procs : Call_release_distributed_lock(p)
    \/ \E p \in Procs : dl_delete(p)
    \/ \E lock_key \in LockKeys : dl_expire(lock_key)

DLockSpec == DLockInit /\ [][DLockNext]_vars

(***************************************************************************)
(* Properties.                                                             *)
(***************************************************************************)
GosCalls == {p \in Procs : frame[p].op = "get_or_set"}
Ended(p) == pc[p] = "done"
HasReturned(p) == Ended(p) /\ frame[p].result.kind = "return"
\* the other handlers have made no call
Alone(p) == \A q \in Procs \ {p} : pc[q] = "idle"
\* the events that leave no entry under a key
AbsentBy == {"none", "expire", "delete", "delete_pattern"}
\* the positions of get_or_set past the filter check
PastFilterPcs == LockedPcs \cup {"gos_get_lock", "gos_acquire"}

\* C1 (single-flight), at check_membership = false: when every handler has
\* made exactly one call, a get_or_set for the same key, the calls
\* overlapped, the store held no entry before them, no redis call failed, no
\* entry expired and fetch returned a non-null value whenever it was invoked,
\* then fetch was invoked exactly once and every call returned the fetched
\* value.
C1_SingleFlight ==
    \A k \in Keys :
       ( /\ ops_started = Cardinality(Procs)
         /\ faults = 0 /\ expiries = 0
         /\ \A p \in Procs :
               /\ Ended(p) /\ frame[p].op = "get_or_set" /\ frame[p].key = k
               /\ ~frame[p].check_bloom
               /\ frame[p].fetched =>
                     (frame[p].fetch_exc = "none" /\ frame[p].value # None) )
       => /\ fetch_count[k] = 1
          /\ \E q \in Procs :
                /\ frame[q].fetched
                /\ \A p \in Procs : frame[p].result = Returned(frame[q].value)

\* C2 as stated: a get_or_set with check_membership = true for a key that was
\* never passed to BloomFilter.add does not get past the filter check and
\* does not invoke fetch.
C2_NeverRecordedNeverFetched ==
    \A p \in GosCalls :
       ( /\ frame[p].check_bloom /\ frame[p].key \notin recorded
         /\ pc[p] # "gos_get1" /\ frame[p].seen.by \in AbsentBy )
       => (pc[p] \notin PastFilterPcs /\ ~frame[p].fetched)

\* C2 amended: a get_or_set with check_membership = true whose filter test
\* reports the key absent never invokes fetch; its next step writes the
\* tombstone with TTL null_ttl, and it returns not-found (it raises the redis
\* error when that write fails).
C2_FilterNegative ==
    \A p \in GosCalls :
       frame[p].filter_negative =>
          /\ frame[p].check_bloom /\ ~frame[p].fetched
          /\ pc[p] \in {"gos_set_null1", "done"}
          /\ Ended(p) =>
                \/ frame[p].result = Returned(None)
                \/ /\ frame[p].result = Raised(ConnectionError)
                   /\ frame[p].failed_at = "gos_set_null1"

C2_TombstoneWrite ==
    \A p \in Procs :
       (pc[p] = "gos_set_null1" /\ HasReturned(p)')
       => redis'[frame[p].key] = Entry(NullMarker, null_ttl)

C2_PenetrationDefense == [](C2_FilterNegative) /\ [][C2_TombstoneWrite]_vars

C2_Witness ==
    \E p \in GosCalls :
       /\ frame[p].key \notin recorded /\ frame[p].seen.by \in AbsentBy
       /\ frame[p].filter_negative /\ HasReturned(p)
       /\ frame[p].result = Returned(None)
       /\ redis[frame[p].key] = Entry(NullMarker, null_ttl)

\* C3 (tombstone short-circuit): a get_or_set made after a call whose fetch
\* returned null, with no other call in between, whose first read finds the
\* tombstone of that call (not expired, not deleted) does not invoke fetch.
C3_TombstoneShortCircuit ==
    \A p \in GosCalls :
       (Alone(p) /\ frame[p].seen.by = "null_fetch")
       => (~frame[p].fetched /\ pc[p] # "gos_fetch")

\* C4 (cache hit): a get_or_set whose first read happens while the entry
\* that a set or a get_or_set stored for a non-null value v is still there
\* (not expired, deleted or overwritten) returns v at that step, without
\* fetch and without the lock.
C4_CacheHit ==
    \A p \in GosCalls :
       frame[p].seen.by \in {"set", "get_or_set"} =>
          /\ Ended(p) /\ frame[p].result = Returned(frame[p].seen.value)
          /\ ~frame[p].fetched

C5_FetchAfterDeleteUnlessFiltered ==
    \A p \in GosCalls :
       ( /\ frame[p].seen.by = "delete" /\ HasReturned(p)
         /\ ~frame[p].double_check_hit /\ ~frame[p].filter_negative )
       => frame[p].fetched

C5_DeleteRemoves ==
    \A p \in Procs :
       (pc[p] = "del_delete" /\ HasReturned(p)') => redis'[frame[p].key] = NoEntry

C6_FetchRaises ==
    \A p \in Procs :
       (pc[p] = "gos_fetch" /\ pc'[p] = "done") =>
          /\ frame'[p].fetch_exc \in FetchErrors
          /\ frame'[p].result = Raised(frame'[p].fetch_exc)
          /\ lock_owner'[frame[p].key] = NoOne
          /\ redis' = redis /\ bits' = bits

C6_NextSameCallFetches ==
    \A p \in GosCalls :
       ( /\ Alone(p) /\ frame[p].after_failure = FailedCall(frame[p].check_bloom)
         /\ Ended(p) /\ frame[p].failed_at = "none" )
       => frame[p].fetched

C7_EmptyWrite ==
    \A p \in Procs :
       ( /\ pc[p] = "gos_set" /\ HasReturned(p)'
         /\ frame[p].value = EmptyList /\ ~frame[p].check_bloom )
       => /\ redis'[frame[p].key] # NoEntry
          /\ redis'[frame[p].key].text = json_dumps(EmptyList)
          /\ redis'[frame[p].key].text # NullMarker
          /\ frame'[p].result = Returned(EmptyList)

C7_EmptyHit ==
    \A p \in GosCalls :
       frame[p].seen = Event("get_or_set", EmptyList) =>
          /\ Ended(p) /\ frame[p].result = Returned(EmptyList)
          /\ ~frame[p].fetched

C7_EmptyResult == [](C7_EmptyHit) /\ [][C7_EmptyWrite]_vars

C7_Witness ==
    \E p \in GosCalls :
       /\ Alone(p) /\ frame[p].seen = Event("get_or_set", EmptyList)
       /\ frame[p].result = Returned(EmptyList)
       /\ redis[frame[p].key] # NoEntry /\ redis[frame[p].key].text = "[]"
       /\ fetch_count[frame[p].key] = 1

\* C8 (no false negatives): in every reachable state, exists(k) is true for
\* every key k that was ever passed to add.
C8_NoFalseNegatives == \A k \in recorded : bloom_exists(bits, k)

\* C9 (read failures are not masked): when the read of step 1 or the filter
\* check of get_or_set fails, the call raises that error, fetch is not
\* invoked, and the failing step writes nothing.
C9_ReadFailed ==
    \A p \in GosCalls :
       frame[p].failed_at \in {"gos_get1", "gos_bloom"} =>
          /\ Ended(p) /\ frame[p].result = Raised(ConnectionError)
          /\ ~frame[p].fetched

C9_NothingWritten ==
    \A p \in Procs :
       ( /\ pc[p] \in {"gos_get1", "gos_bloom"} /\ pc'[p] = "done"
         /\ frame'[p].failed_at = pc[p] )
       => (redis' = redis /\ bits' = bits /\ fetch_count' = fetch_count)

C9_ReadFailuresPropagate == [](C9_ReadFailed) /\ [][C9_NothingWritten]_vars

C9_Witness ==
    \E p \in GosCalls :
       /\ frame[p].failed_at = "gos_bloom" /\ Ended(p)
       /\ frame[p].result = Raised(ConnectionError)
       /\ fetch_count[frame[p].key] = 0 /\ redis[frame[p].key] = NoEntry

\* C10 (best-effort cache write): when fetch returned a value and the write
\* of the value, or the recording of the key in the filter, fails, the call
\* returns the fetched value and the lock of the key is free.
C10_BestEffortWrite ==
    \A p \in GosCalls :
       frame[p].failed_at \in {"gos_set", "gos_add"} =>
          /\ frame[p].result = Returned(frame[p].value)
          /\ lock_owner[frame[p].key] # p

\* C11 (jitter bound): set with jitter stores an expiry e with
\* base <= e <= base + 300, and without jitter exactly base; the value
\* write of get_or_set stores base <= e <= base + 300; base is the ttl
\* argument, or 3600 when the argument is omitted.
C11_Base(p) == IF frame[p].ttl = NoTtl THEN 3600 ELSE frame[p].ttl

C11_SetExpiry ==
    \A p \in Procs :
       (pc[p] = "set_setex" /\ HasReturned(p)') =>
          LET e == redis'[frame[p].key].ttl
          IN  IF frame[p].use_random_ttl
              THEN C11_Base(p) <= e /\ e <= C11_Base(p) + 300
              ELSE e = C11_Base(p)

C11_RebuildExpiry ==
    \A p \in Procs :
       (pc[p] = "gos_set" /\ pc'[p] \in {"gos_add", "done"}) =>
          LET e == redis'[frame[p].key].ttl
          IN  C11_Base(p) <= e /\ e <= C11_Base(p) + 300

C11_JitterBound == [][C11_SetExpiry /\ C11_RebuildExpiry]_vars

C11_Witness ==
    \E p \in Procs :
       /\ frame[p].op = "set" /\ HasReturned(p) /\ frame[p].use_random_ttl
       /\ frame[p].ttl = 1800
       /\ redis[frame[p].key] # NoEntry /\ redis[frame[p].key].ttl = 2100

\* the manager was constructed on an empty filter: the items recorded before
\* the construction are not in the history
InitFresh == recorded \cap PeerItems = {}
\* the first call of a manager, made with the default arguments of get_or_set
FirstDefaultCall(p) ==
    /\ ops_started = 1 /\ frame[p].op = "get_or_set" /\ Ended(p)
    /\ frame[p].check_bloom /\ frame[p].ttl = NoTtl

\* C12 (not-found scenario), its first call: on a fresh manager the first
\* get_or_set with default arguments, with a fetch that returns null when it
\* is invoked, invokes fetch (once), writes a tombstone and returns null.
C12_NotFoundScenario ==
    \A p \in Procs :
       ( /\ InitFresh /\ FirstDefaultCall(p)
         /\ frame[p].fetched =>
               (frame[p].value = None /\ frame[p].fetch_exc = "none") )
       => /\ frame[p].result = Returned(None)
          /\ redis[frame[p].key] = Entry(NullMarker, null_ttl)
          /\ fetch_count[frame[p].key] = 1

\* C13 (found scenario): on a fresh manager the first get_or_set with default
\* arguments, with a fetch that returns {"id": 2} when it is invoked, returns
\* {"id": 2}; then the store holds its JSON text with a TTL in [3600, 3900]
\* and the filter holds the key.
C13_FoundScenario ==
    \A p \in Procs :
       ( /\ InitFresh /\ FirstDefaultCall(p)
         /\ frame[p].fetched =>
               (frame[p].value = Todo2 /\ frame[p].fetch_exc = "none") )
       => /\ frame[p].result = Returned(Todo2)
          /\ redis[frame[p].key] # NoEntry
          /\ redis[frame[p].key].text = json_dumps(Todo2)
          /\ redis[frame[p].key].ttl \in 3600..3900
          /\ bloom_exists(bits, frame[p].key)

\* C14 (bulk invalidation): at the step at which delete_pattern(pattern)
\* returns, the store holds no key that matches pattern, also when other
\* callers write matching keys during the call.
C14_NoneLeft ==
    \A p \in Procs :
       ( /\ frame[p].op = "delete_pattern" /\ pc[p] \in {"dp_keys", "dp_delete"}
         /\ HasReturned(p)' )
       => redis_keys(frame[p].key)' = {}

C14_BulkInvalidation == [][C14_NoneLeft]_vars

\* the first read of p found a payload, written by set, that json.loads
\* cannot decode (and that is not the tombstone marker)
ReadUndecodable(p) ==
    /\ frame[p].op = "get_or_set" /\ pc[p] # "gos_get1"
    /\ frame[p].seen.by = "set" /\ frame[p].seen.value.type = "str"
    /\ frame[p].seen.value.text # NullMarker
    /\ json_loads(frame[p].seen.value.text) = JSONDecodeError

\* C15 (undecodable payloads are misses): a get_or_set whose first read finds
\* a payload that cannot be deserialized goes on to the rebuild path; it does
\* not return at that read with the raw payload.
C15_UndecodableIsMiss ==
    \A p \in Procs :
       (ReadUndecodable(p) /\ Ended(p)) =>
          /\ frame[p].result # Returned(PyStr(frame[p].seen.value.text))
          /\ frame[p].fetched \/ frame[p].filter_negative

\* the calls that invalidate entries
InvalidationOps ==
    {"delete", "delete_pattern", "invalidate_todo", "invalidate_user_todos"}

\* C16 (invalidation never clears the filter): no step of delete,
\* delete_pattern, invalidate_todo or invalidate_user_todos changes a bit of
\* the filter's bit array.
C16_StepKeepsBits ==
    \A p \in Procs :
       (frame[p].op \in InvalidationOps /\ pc'[p] # pc[p]) => bits' = bits

C16_FilterNeverCleared == [][C16_StepKeepsBits]_vars

\* C17 (sync and async agree), on one call: the first call of a fresh
\* manager, get_or_set with check_bloom = false, that returns a result leaves
\* the same filter contents in both variants.  The sync variant records the
\* key only `if check_bloom` and leaves the filter empty, so agreement means
\* that the filter is empty in every variant.
C17_VariantsAgree ==
    \A p \in Procs :
       ( /\ InitFresh /\ ops_started = 1 /\ frame[p].op = "get_or_set"
         /\ ~frame[p].check_bloom /\ HasReturned(p) )
       => bits = {}

\* C18 (no wrongful not-found): when a get_or_set with check_membership =
\* true returns not-found, fetch has been invoked for the key during or
\* before the call.
C18_NoWrongfulNotFound ==
    \A p \in GosCalls :
       ( /\ frame[p].check_bloom /\ HasReturned(p)
         /\ frame[p].result = Returned(None) )
       => fetch_count[frame[p].key] > 0

\* the get_or_set calls for key k that hold, or believe they hold, its lock
InLock(k) ==
    {p \in GosCalls : frame[p].key = k /\ pc[p] \in LockedPcs}

\* C19 (per-key mutual exclusion): at most one get_or_set call per key is
\* between acquiring and releasing the lock of the key, and it is the owner
\* of the lock; so at most one call per key is at its fetch.
C19_MutualExclusion ==
    \A k \in Keys :
       /\ Cardinality(InLock(k)) <= 1
       /\ \A p \in InLock(k) : lock_owner[k] = p

C19_Witness ==
    \E p, q \in GosCalls :
       /\ p # q /\ frame[p].key = frame[q].key
       /\ pc[p] = "gos_fetch" /\ lock_owner[frame[p].key] = p
       /\ pc[q] = "gos_acquire"

\* C20 (one fetch per miss episode): a get_or_set that takes the lock after
\* another call's rebuild has stored its result (a value, or the tombstone of
\* a null fetch) since its own first read, the result still being there,
\* does not go on to fetch.
C20_NoSecondFetch ==
    \A p \in GosCalls :
       ( /\ shadow[frame[p].key].by \in {"get_or_set", "null_fetch"}
         /\ frame[p].seen # shadow[frame[p].key]
         /\ frame[p].seen.by \notin {"get_or_set", "null_fetch"}
         /\ \E q \in GosCalls \ {p} : Ended(q) /\ frame[q].fetched )
       => pc[p] # "gos_fetch"

\* the events that leave the tombstone marker under a key
TombstoneBy == {"null_filter", "null_fetch"}

\* C21 (tombstone reads are pure fast-path): a get_or_set whose first read
\* finds the tombstone that a get_or_set wrote (not expired, not deleted) has
\* returned not-found at that read: it is not at the filter check, at the
\* lock or at a write of the store.
C21_TombstoneFastPath ==
    \A p \in GosCalls :
       (pc[p] # "gos_get1" /\ frame[p].seen.by \in TombstoneBy) =>
          /\ Ended(p) /\ frame[p].result = Returned(None)
          /\ ~frame[p].filter_negative /\ ~frame[p].fetched
          /\ frame[p].failed_at = "none"

\* C22 (lock release and progress), the release: the lock of a key is held
\* only by a get_or_set call for that key that is inside its `with lock`
\* block; a call that has ended, by a return, by an exception of fetch or
\* of redis, or by cancellation, holds no lock.
C22_Released ==
    \A k \in Keys, p \in Procs :
       lock_owner[k] = p => (pc[p] \in LockedPcs /\ frame[p].key = k)

\* C22, the progress: when fetch and the redis calls terminate, a call that
\* waits for the lock of a key comes to its end, and has left the lock.
C22_Progress ==
    \A p \in Procs :
       (pc[p] = "gos_acquire" /\ lock_owner[frame[p].key] # NoOne)
          ~> (Ended(p) /\ \A k \in Keys : lock_owner[k] # p)

C22_LockReleaseAndProgress == [](C22_Released) /\ C22_Progress

C22_Witness ==
    \E p, q \in GosCalls :
       /\ p # q /\ frame[p].key = frame[q].key
       /\ Ended(q) /\ frame[q].result = Raised(CancelledError)
       /\ frame[q].failed_at \in LockedPcs
       /\ frame[p].waited /\ HasReturned(p) /\ frame[p].failed_at = "none"
       /\ lock_owner[frame[p].key] = NoOne

\* C23 (lock registry uniqueness): the callers of _get_lock for one key have
\* all received the lock object that the registry holds for the key.
C23_SameLock ==
    \A p \in GosCalls :
       frame[p].lock # NoLock =>
          /\ frame[p].lock = locks[frame[p].key]
          /\ \A q \in GosCalls :
                (frame[q].key = frame[p].key /\ frame[q].lock # NoLock)
                => frame[q].lock = frame[p].lock

\* C23: an entry of the registry is never replaced or removed
C23_EntryKept == \A k \in Keys : locks[k] # NoLock => locks'[k] = locks[k]

\* C23: an entry is created only by a get_or_set for the key whose first
\* read missed and whose filter check did not report the key absent
C23_CreatedPastFilter ==
    \A k \in Keys :
       locks'[k] # locks[k] =>
          \E p \in GosCalls :
             /\ frame[p].key = k /\ pc[p] = "gos_get_lock"
             /\ pc'[p] = "gos_acquire"
             /\ ~IsHit(frame[p].seen.value) /\ ~frame[p].filter_negative

C23_LockRegistry ==
    [](C23_SameLock) /\ [][C23_EntryKept /\ C23_CreatedPastFilter]_vars

C23_Witness ==
    \E p, q \in GosCalls :
       /\ p # q /\ frame[p].key = frame[q].key
       /\ pc[p] \in LockedPcs /\ pc[q] = "gos_acquire"
       /\ frame[p].lock # NoLock /\ frame[q].lock = frame[p].lock
       /\ locks[frame[p].key] = frame[p].lock

\* C24 (the filter records only keys that have had data): a key for which
\* fetch was invoked once, by a get_or_set whose fetch returned null, has not
\* been added to the filter.
C24_OnlyKeysWithData ==
    \A p \in GosCalls :
       ( /\ frame[p].fetched /\ frame[p].fetch_exc = "none"
         /\ frame[p].value = None /\ fetch_count[frame[p].key] = 1 )
       => frame[p].key \notin recorded

\* C25 (a successful rebuild records the key): when a get_or_set whose fetch
\* returned a non-null value has returned, no other caller having made a
\* call, the filter reports the key present, whatever check_membership was.
C25_RebuildRecordsKey ==
    \A p \in GosCalls :
       ( /\ Alone(p) /\ HasReturned(p)
         /\ frame[p].fetched /\ frame[p].value # None )
       => bloom_exists(bits, frame[p].key)

\* the get_todo calls
GetTodoCalls == {p \in Procs : frame[p].service = "get_todo"}
\* the dicts of the todo as it was before update_todo wrote it
PreChange(todo_id) ==
    {to_dict(todo) : todo \in {r \in Rows : r.id = todo_id /\ ~r.completed}}

\* C26 (no stale value after invalidation): a get_todo that starts after an
\* update_todo has written the todo and its invalidate_todo has returned
\* does not return the todo as it was before the update, also when a rebuild
\* of the key was in progress during the update.
C26_NoStaleValue ==
    \A p \in GetTodoCalls :
       (frame[p].after_update /\ HasReturned(p))
       => frame[p].result.value \notin PreChange(frame[p].todo_id)

\* C28 (owner isolation of item reads): in a sequence of calls of one
\* handler after the other, get_todo(todo_id, user_id) returns a todo only
\* if the todo belongs to user_id.
C28_OwnerIsolation ==
    \A p \in GetTodoCalls :
       ( /\ Alone(p) /\ HasReturned(p)
         /\ get_todo_result(frame[p].result).kind = "return" )
       => \E todo \in Rows :
             /\ frame[p].result.value = to_dict(todo)
             /\ todo.id = frame[p].todo_id /\ todo.user_id = frame[p].user_id

\* the entry of key k holds a value, not the tombstone marker
Live(k) == redis[k] # NoEntry /\ redis[k].text # NullMarker

\* C27 (a tombstone never replaces live data): when a step of get_or_set
\* writes the tombstone over an entry that holds a value, a fetch of that
\* call has returned null.
C27_TombstoneStep ==
    \A p \in GosCalls :
       ( /\ pc[p] \in {"gos_set_null1", "gos_set_null2"} /\ pc'[p] # pc[p]
         /\ Live(frame[p].key)
         /\ redis'[frame[p].key] # NoEntry
         /\ redis'[frame[p].key].text = NullMarker )
       => (frame[p].fetched /\ frame[p].value = None)

C27_TombstoneKeepsLiveData == [][C27_TombstoneStep]_vars

\* the invalidation helpers of the cache manager
HelperOps == {"invalidate_todo", "invalidate_user_todos"}

\* C29 (invalidation helpers are narrow): a step of invalidate_todo(id)
\* changes no entry of the store but that of "todo:<id>", a step of
\* invalidate_user_todos(uid) none but that of "todos:user:<uid>", and
\* neither changes the filter's bit array.
C29_OthersKept ==
    \A p \in Procs :
       (frame[p].op \in HelperOps /\ pc'[p] # pc[p]) =>
          /\ \A k \in DOMAIN redis \ {frame[p].key} : redis'[k] = redis[k]
          /\ bits' = bits

\* C29: when no other call writes the store, the entry of the named key is
\* gone when the helper returns
C29_NamedRemoved ==
    \A p \in Procs :
       (frame[p].op \in HelperOps /\ pc[p] # "done" /\ pc'[p] = "done")
       => redis'[frame[p].key] = NoEntry

C29_NarrowInvalidation == [][C29_OthersKept /\ C29_NamedRemoved]_vars

C29_Witness ==
    \E p \in Procs :
       /\ frame[p].op = "invalidate_user_todos" /\ HasReturned(p)
       /\ frame[p].key = UserTodosKey(1) /\ frame[p].keys = {UserTodosKey(1)}
       /\ redis[UserTodosKey(1)] = NoEntry
       /\ redis[UserTodosKey(12)] # NoEntry /\ redis[UserTodosKey(2)] # NoEntry
       /\ redis[TodoKey(1)] # NoEntry /\ redis[TodoKey(12)] # NoEntry

\* C30 (the tombstone TTL is fixed): while the last write of a key is a
\* tombstone of get_or_set, written at the filter step or after a null
\* fetch, the entry is the marker with an expiry of exactly 300 s, whatever
\* ttl argument the call was given.
C30_TombstoneTtl ==
    \A k \in Keys :
       shadow[k].by \in TombstoneBy => redis[k] = Entry(NullMarker, 300)

C30_Witness ==
    \E p \in GosCalls :
       /\ HasReturned(p) /\ frame[p].ttl = 1800
       /\ frame[p].fetched /\ frame[p].value = None
       /\ shadow[frame[p].key].by = "null_fetch"
       /\ redis[frame[p].key] = Entry(NullMarker, 300)

\* C31 (set/get round trip): while the last write of a key is a set(key, v),
\* not expired and not deleted, get(key) returns v, also for a str v whose
\* text is valid JSON and for the str "__NULL__".
C31_SetGetRoundTrip ==
    \A k \in Keys : shadow[k].by = "set" => get(k) = shadow[k].value

\* the callers between their successful acquisition of the distributed lock
\* of lock_key and the end of their release
DLockHolders(lock_key) ==
    {p \in Procs : pc[p] \in {"dl_holding", "dl_delete"} /\ frame[p].key = lock_key}

\* C32 (distributed lock exclusivity): at most one caller is between its
\* successful acquisition of the lock of a key and its release, also when
\* the TTL of the lock runs out meanwhile.
C32_DLockExclusive ==
    \A lock_key \in LockKeys : Cardinality(DLockHolders(lock_key)) <= 1

\* C32: a release removes only the lock that the releasing caller set
C32_ReleaseStep ==
    \A p \in Procs :
       (pc[p] = "dl_delete" /\ pc'[p] = "done" /\ redis[frame[p].key] # NoEntry)
       => shadow[frame[p].key] = Event(p, None)

C32_DistributedLock == [](C32_DLockExclusive) /\ [][C32_ReleaseStep]_vars

\* the sizing that C33 states: ceil for the bit count, round for the hash count
CeilBitSize(n, p) ==
    n * (LogRatio(p) \div RatioUnit)
    + (n * (LogRatio(p) % RatioUnit) + RatioUnit - 1) \div RatioUnit

RoundHashCount(m, n) ==
    LET k == (2 * m * Ln2 + n * Ln2Unit) \div (2 * n * Ln2Unit)
    IN  IF k < 1 THEN 1 ELSE k

\* C33 (filter sizing): the filter of a cache manager, constructed with
\* capacity n = 10000 and error rate p = 0.01, has
\* bit_size = ceil(-n*ln(p)/(ln 2)^2) = 95851 and
\* hash_count = max(1, round(bit_size*ln(2)/n)) = 7.
C33_FilterSizing ==
    bloom_filter # NoClient =>
        /\ bit_size = CeilBitSize(capacity, error_rate)
        /\ hash_count = RoundHashCount(bit_size, capacity)
        /\ bit_size = 95851
        /\ hash_count = 7

\* p is rebuilding the entry of its key: it holds the lock and its fetch has
\* not returned
Rebuilding(p) == pc[p] = "gos_fetch" /\ lock_owner[frame[p].key] = p

\* C34 (keys do not block each other): while a get_or_set rebuild is in
\* progress for a key, a concurrent get_or_set of a different key can take
\* every step from the lock registry to its own fetch.
C34_NotBlocked ==
    \A p \in Procs, q \in Procs :
       (Rebuilding(p) /\ q # p /\ frame[q].op = "get_or_set"
           /\ frame[q].key # frame[p].key)
       => /\ pc[q] = "gos_get_lock" => ENABLED gos_get_lock(q)
          /\ pc[q] = "gos_acquire" => ENABLED gos_acquire(q)
          /\ pc[q] = "gos_get2" => ENABLED gos_get2(q)
          /\ pc[q] = "gos_fetch" => ENABLED gos_fetch(q)

\* C34: the step made under the registry's meta-lock makes no backend call
\* and no fetch
C34_MetaLockStep ==
    \A p \in Procs :
       (pc[p] = "gos_get_lock" /\ pc'[p] # pc[p])
       => /\ redis' = redis /\ bits' = bits /\ fetch_count' = fetch_count
          /\ pc'[p] = "gos_acquire"

C34_KeysDoNotBlock == [](C34_NotBlocked) /\ [][C34_MetaLockStep]_vars

\* two rebuilds of different keys in progress at once, each inside its fetch
C34_Witness ==
    \E p \in Procs, q \in Procs :
       /\ Rebuilding(p) /\ Rebuilding(q)
       /\ frame[p].key # frame[q].key

\* the items whose hash is negative for some seed
NegativeHashed == {item \in DOMAIN mmh3_table :
                      \E i \in 1..hash_count : mmh3_hash(item, i - 1) < 0}

\* C35 (filter offsets are in range): _get_offsets returns exactly hash_count
\* offsets for every item, each at least 0 and less than bit_size, also for
\* a negative hash; the bits that add has set for an item are the bits that
\* exists reads for it.
C35_OffsetsInRange ==
    /\ \A item \in DOMAIN mmh3_table :
          /\ Len(get_offsets(item)) = hash_count
          /\ \A i \in 1..hash_count :
                get_offsets(item)[i] \in 0..(bit_size - 1)
    /\ \A o \in bits : o \in 0..(bit_size - 1)
    /\ \A item \in recorded :
          /\ bloom_exists(bits, item)
          /\ \A i \in 1..hash_count : get_offsets(item)[i] \in bits

\* a get_or_set has added a key with a negative hash to the filter
C35_Witness ==
    \E p \in Procs :
       /\ frame[p].op = "get_or_set" /\ pc[p] = "done"
       /\ frame[p].key \in NegativeHashed \cap recorded
       /\ frame[p].key \notin PeerItems
       /\ bloom_exists(bits, frame[p].key)

\* C36 (the filter is initialized before it is consulted): in the async
\* cache manager, whenever redis_client is set, bloom_filter is set too
C36_FilterWithClient ==
    (variant = "async" /\ redis_client # NoClient) => bloom_filter # NoClient

\* C36: a get_or_set with check_bloom=True that goes on after the miss of
\* step 1 goes on to the filter check
C36_CheckStep ==
    \A p \in Procs :
       (/\ variant = "async"
        /\ pc[p] = "gos_get1" /\ frame[p].check_bloom
        /\ pc'[p] \notin {"gos_get1", "done"})
       => pc'[p] = "gos_bloom"

C36_FilterInitialized == [](C36_FilterWithClient) /\ [][C36_CheckStep]_vars

\* a first call is still inside _get_redis while another, with
\* check_bloom=True, has come out of it and is at the filter check
C36_Witness ==
    /\ variant = "async"
    /\ connecting # {}
    /\ \E p \in Procs :
          /\ p \notin connecting
          /\ pc[p] = "gos_bloom" /\ frame[p].check_bloom
          /\ bloom_filter # NoClient

=============================================================================
